---- MODULE Spec2Model ----
(***************************************************************************)
(* State-machine model of TikhonovSolver                                   *)
(* (src/src/py/reconstruction/solver/TikhonovSolver.py) and of             *)
(* Registration (src/src/registration/Registration.py).                    *)
(*                                                                         *)
(* Vectors are sequences of integers.  The regularization weight alpha is  *)
(* drawn from perfect squares so that np.sqrt(alpha) is an integer; the    *)
(* constructor is also offered a negative alpha.  Python's None is the     *)
(* empty sequence and a stored number v is <<v>>.                          *)
(***************************************************************************)
EXTENDS Integers, Sequences, FiniteSets, TLC

VARIABLES
    pc,               \* "new" (not constructed), "idle", "Solving"
    stacks,           \* read-only slice data: [y, mask]
    reg_type,         \* self._reg_type
    alpha,            \* self._alpha
    iter_max,         \* self._iter_max
    minimizer,        \* self._minimizer
    HR_itk,           \* self._HR_volume.itk  (flat voxel vector)
    HR_sitk,          \* self._HR_volume.sitk (flat voxel vector)
    residual_ell2,    \* self._residual_ell2
    residual_prior,   \* self._residual_prior
    elapsed_time_sec, \* self._elapsed_time_sec
    N_voxels,         \* local of run_reconstruction: size of augmented system
    b,                \* local of run_reconstruction: right-hand side
    iter,             \* iterations done by the running solve
    probe,            \* last evaluation of A_fw / A_bw by the running solve
    call,             \* last call: [op, arg, result]
    ret,              \* number returned by the last call (None if none)
    ret_str,          \* string returned by the last call, as its characters
    rpc,              \* Registration: "new" (not constructed) or "idle"
    fixed,            \* self._fixed (None or an image)
    moving,           \* self._moving (None or an image)
    fixed_mask_flag,  \* self._use_fixed_mask
    alpha_cut,        \* self._alpha_cut
    verbose_flag,     \* self._use_verbose
    parameters,       \* self._parameters
    fixed_size,       \* self._fixed_size and the other properties of fixed
    filters,          \* the three filters _initialize_class creates
    nda_mask,         \* self._nda_mask
    rigid_transform_itk,  \* parameters held by self._rigid_transform_itk
    registration_time,    \* Registration's self._elapsed_time_sec
    rcall,            \* last call on the Registration: [op, result]
    rret              \* value returned by that call

tikhonovVars ==
    <<pc, stacks, reg_type, alpha, iter_max, minimizer, HR_itk, HR_sitk,
      residual_ell2, residual_prior, elapsed_time_sec, N_voxels, b, iter,
      probe, call, ret, ret_str>>

registrationVars ==
    <<rpc, fixed, moving, fixed_mask_flag, alpha_cut, verbose_flag, parameters,
      fixed_size, filters, nda_mask, rigid_transform_itk, registration_time,
      rcall, rret>>

vars == <<tikhonovVars, registrationVars>>

solverFields == <<reg_type, alpha, iter_max, minimizer, HR_itk, HR_sitk,
                  residual_ell2, residual_prior, elapsed_time_sec>>

solveLocals == <<N_voxels, b, iter, probe>>

-----------------------------------------------------------------------------
(* Bounds of the model *)

\* voxel and slice intensities range over 0..MaxVal
MaxVal == 1
\* largest iter_max offered to the constructor
MaxIter == 1

\* largest alpha a filename is compared against
MaxAlphaCompared == 12
\* images offered to the Registration are 1..MaxImage
MaxImage == 2

-----------------------------------------------------------------------------
(* Values *)

None == <<>>

Some(v) == <<v>>

\* shape of the HR volume as (z, y, x), self._HR_shape_nda
HR_shape_nda == <<1, 1, 2>>

N_voxels_HR_volume == HR_shape_nda[1] * HR_shape_nda[2] * HR_shape_nda[3]

\* the linear slice acquisition operator A_k (warp, blur, downsample) of all
\* slices stacked, one row per slice voxel
Amat == << <<1, 0>>, <<1, 1>> >>

N_total_slice_voxels == Len(Amat)

Vals == 0..MaxVal

Vec(n, S) == [1..n -> S]

Volumes == Vec(N_voxels_HR_volume, Vals)

\* binary slice masks offered to the solver
Masks == {<<1, 1>>, <<1, 0>>}

\* observed slice intensities offered to the solver
Observations ==
    {[i \in 1..N_total_slice_voxels |-> MaxVal],
     [i \in 1..N_total_slice_voxels |-> i % (MaxVal + 1)]}

\* the flat voxel vector of the caller's first estimate of the HR volume
InitialVolume == [i \in 1..N_voxels_HR_volume |-> i % (MaxVal + 1)]

RegTypes == {"TK0", "TK1"}

\* reg_type arguments offered by callers
RegTypeArgs == RegTypes \cup {"TV"}

Minimizers == {"lsmr", "lsqr", "L-BFGS-B"}

MinimizerArgs == {"lsmr", "cg"}

Alphas == {0, 4}

AlphaArgs == Alphas \cup {-1}

-----------------------------------------------------------------------------
(* Vector helpers (numpy) *)

RECURSIVE SumSeq(_)
SumSeq(s) == IF s = <<>> THEN 0 ELSE Head(s) + SumSeq(Tail(s))

Dot(u, v) == SumSeq([i \in 1..Len(u) |-> u[i] * v[i]])

SumSq(u) == Dot(u, u)

Zeros(n) == [i \in 1..n |-> 0]

Scale(c, u) == [i \in 1..Len(u) |-> c * u[i]]

Add(u, v) == [i \in 1..Len(u) |-> u[i] + v[i]]

\* u[lo:hi] with Python's half-open, 0-based bounds
Slice(u, lo, hi) == [i \in 1..(hi - lo) |-> u[lo + i]]

\* a[lo:lo+len(v)] = v
Assign(a, lo, v) ==
    [i \in 1..Len(a) |-> IF i > lo /\ i <= lo + Len(v) THEN v[i - lo] ELSE a[i]]

\* np.sqrt on the perfect squares of Alphas
Sqrt(a) == CHOOSE r \in 0..a : r * r = a

-----------------------------------------------------------------------------
(* Masked Stack Assembler of the base class Solver *)

\* M A x: masked forward simulation of all slices, stacked
MA(HR_nda_vec) ==
    [i \in 1..N_total_slice_voxels |-> stacks.mask[i] * Dot(Amat[i], HR_nda_vec)]

\* A' M y[upper]: masks the first N_total_slice_voxels entries of the stacked
\* vector and sums the per-slice adjoint contributions
A_adj_M(stacked_slices_nda_vec) ==
    [j \in 1..N_voxels_HR_volume |->
        SumSeq([i \in 1..N_total_slice_voxels |->
                    Amat[i][j] * stacks.mask[i] * stacked_slices_nda_vec[i]])]

\* M y: masked observed slices, stacked
get_M_y == [i \in 1..N_total_slice_voxels |-> stacks.mask[i] * stacks.y[i]]

\* sum_k || M_k (y_k - A_k x) ||^2
get_residual_ell2(HR_nda_vec) ==
    SumSq([i \in 1..N_total_slice_voxels |->
              stacks.mask[i] * (stacks.y[i] - Dot(Amat[i], HR_nda_vec))])

-----------------------------------------------------------------------------
(* Differential operators on the reshaped volume (periodic forward differences) *)

nx == HR_shape_nda[3]

ny == HR_shape_nda[2]

nz == HR_shape_nda[1]

\* flat 1-based index of voxel (z, y, x) in C order
Flat(z, y, x) == (z * ny + y) * nx + x + 1

cx(i) == (i - 1) % nx

cy(i) == ((i - 1) \div nx) % ny

cz(i) == (i - 1) \div (nx * ny)

Dx(u) == [i \in 1..Len(u) |-> u[Flat(cz(i), cy(i), (cx(i) + 1) % nx)] - u[i]]

Dy(u) == [i \in 1..Len(u) |-> u[Flat(cz(i), (cy(i) + 1) % ny, cx(i))] - u[i]]

Dz(u) == [i \in 1..Len(u) |-> u[Flat((cz(i) + 1) % nz, cy(i), cx(i))] - u[i]]

Dx_adj(v) == [i \in 1..Len(v) |-> v[Flat(cz(i), cy(i), (cx(i) + nx - 1) % nx)] - v[i]]

Dy_adj(v) == [i \in 1..Len(v) |-> v[Flat(cz(i), (cy(i) + ny - 1) % ny, cx(i))] - v[i]]

Dz_adj(v) == [i \in 1..Len(v) |-> v[Flat((cz(i) + nz - 1) % nz, cy(i), cx(i))] - v[i]]

-----------------------------------------------------------------------------
(* Images: a voxel array indexed [z][y][x] and the library that holds it *)

\* HR_nda_vec.reshape(self._HR_shape_nda)
Reshape(HR_nda_vec) ==
    [z \in 1..nz |-> [y \in 1..ny |-> [x \in 1..nx |->
        HR_nda_vec[Flat(z - 1, y - 1, x - 1)]]]]

\* nda.flatten()
Flatten(nda) ==
    [i \in 1..N_voxels_HR_volume |-> nda[cz(i) + 1][cy(i) + 1][cx(i) + 1]]

\* the itk image of a flat voxel vector, in the space of the HR volume
get_itk_image_from_array_vec(HR_nda_vec) ==
    [lib |-> "itk", nda |-> Reshape(HR_nda_vec)]

\* the SimpleITK image of an itk image
get_sitk_from_itk_image(image_itk) == [lib |-> "sitk", nda |-> image_itk.nda]

\* sitk.GetArrayFromImage
GetArrayFromImage(image_sitk) == image_sitk.nda

-----------------------------------------------------------------------------
(* Augmented Regularized Operator *)

\* _A_TK0 that drops the regularization rows when alpha = 0
A_TK0_NoRowsAtZero(HR_nda_vec, a) ==
    IF a = 0 THEN MA(HR_nda_vec)
    ELSE MA(HR_nda_vec) \o Scale(Sqrt(a), HR_nda_vec)

\* [MA; sqrt(alpha) I] x
A_TK0(HR_nda_vec, a) ==
    LET A_x  == Zeros(N_total_slice_voxels + N_voxels_HR_volume)
        A_x1 == Assign(A_x, 0, MA(HR_nda_vec))
    IN  Assign(A_x1, Len(A_x1) - N_voxels_HR_volume, Scale(Sqrt(a), HR_nda_vec))

\* _A_adj_TK0 that adds the first N_voxels entries instead of the last
A_adj_TK0_WrongBlock(stacked_slices_nda_vec, a) ==
    Add(A_adj_M(stacked_slices_nda_vec),
        Scale(Sqrt(a), Slice(stacked_slices_nda_vec, 0, N_voxels_HR_volume)))

\* [A'M  sqrt(alpha) I] y
A_adj_TK0(stacked_slices_nda_vec, a) ==
    LET n       == Len(stacked_slices_nda_vec)
        A_adj_y == A_adj_M(stacked_slices_nda_vec)
    IN  Add(A_adj_y,
            Scale(Sqrt(a), Slice(stacked_slices_nda_vec, n - N_voxels_HR_volume, n)))

\* [MA; sqrt(alpha) Dx; sqrt(alpha) Dy; sqrt(alpha) Dz] x
A_TK1(HR_nda_vec, a) ==
    MA(HR_nda_vec) \o Scale(Sqrt(a), Dx(HR_nda_vec))
                   \o Scale(Sqrt(a), Dy(HR_nda_vec))
                   \o Scale(Sqrt(a), Dz(HR_nda_vec))

\* [A'M  sqrt(alpha) Dx'  sqrt(alpha) Dy'  sqrt(alpha) Dz'] y
A_adj_TK1(stacked_slices_nda_vec, a) ==
    LET N  == N_total_slice_voxels
        V  == N_voxels_HR_volume
        gx == Dx_adj(Slice(stacked_slices_nda_vec, N, N + V))
        gy == Dy_adj(Slice(stacked_slices_nda_vec, N + V, N + 2 * V))
        gz == Dz_adj(Slice(stacked_slices_nda_vec, N + 2 * V, N + 3 * V))
    IN  Add(A_adj_M(stacked_slices_nda_vec), Scale(Sqrt(a), Add(gx, Add(gy, gz))))

\* keys of the dispatch tables self._A, self._A_adj, self._get_residual_prior
A_keys == {"TK0", "TK1"}

\* A_fw = lambda x: self._A[self._reg_type](x, self._alpha)
A_fw(x) == IF reg_type = "TK0" THEN A_TK0(x, alpha) ELSE A_TK1(x, alpha)

\* A_bw = lambda x: self._A_adj[self._reg_type](x, self._alpha)
A_bw(z) == IF reg_type = "TK0" THEN A_adj_TK0(z, alpha) ELSE A_adj_TK1(z, alpha)

\* || x ||^2
get_residual_prior_TK0(HR_nda_vec) == SumSq(HR_nda_vec)

\* || Dx ||^2 with D = [D_x; D_y; D_z]
get_residual_prior_TK1(HR_nda_vec) ==
    SumSq(Dx(HR_nda_vec)) + SumSq(Dy(HR_nda_vec)) + SumSq(Dz(HR_nda_vec))

\* a dispatch table whose two entries are both the zero-order norm
get_residual_prior_AlwaysTK0(t, HR_nda_vec) == get_residual_prior_TK0(HR_nda_vec)

\* self._get_residual_prior[t](HR_nda_vec)
get_residual_prior(t, HR_nda_vec) ==
    IF t = "TK0" THEN get_residual_prior_TK0(HR_nda_vec)
    ELSE get_residual_prior_TK1(HR_nda_vec)

\* _get_b that leaves the observations unmasked
get_b_Unmasked(N) == Assign(Zeros(N), 0, stacks.y)

\* b = [M y; 0]
get_b(N) == Assign(Zeros(N), 0, get_M_y)

\* run_reconstruction that sizes the augmented system for TK1 whatever the type
AugmentedSize_AlwaysTK1(t) == N_total_slice_voxels + 3 * N_voxels_HR_volume

\* size of the augmented system, sized for TK1 whenever the type is not TK0
AugmentedSize(t) ==
    IF t \in {"TK0"} THEN N_total_slice_voxels + N_voxels_HR_volume
    ELSE N_total_slice_voxels + 3 * N_voxels_HR_volume

-----------------------------------------------------------------------------
(* Strings, as sequences of one-character strings *)

\* the characters of the string literals the solver is given or builds
Chars(str) ==
    CASE str = "TK0" -> <<"T", "K", "0">>
      [] str = "TK1" -> <<"T", "K", "1">>
      [] str = "TV" -> <<"T", "V">>
      [] str = "lsmr" -> <<"l", "s", "m", "r">>
      [] str = "lsqr" -> <<"l", "s", "q", "r">>
      [] str = "cg" -> <<"c", "g">>
      [] str = "L-BFGS-B" -> <<"L", "-", "B", "F", "G", "S", "-", "B">>
      [] str = "recon" -> <<"r", "e", "c", "o", "n">>
      [] str = "v1.2" -> <<"v", "1", ".", "2">>
      [] str = "_" -> <<"_">>
      [] str = "_stacks" -> <<"_", "s", "t", "a", "c", "k", "s">>
      [] str = "_alpha" -> <<"_", "a", "l", "p", "h", "a">>
      [] str = "_itermax" -> <<"_", "i", "t", "e", "r", "m", "a", "x">>
      [] str = "" -> <<>>

RECURSIVE StrInt(_)

DigitChars == <<"0", "1", "2", "3", "4", "5", "6", "7", "8", "9">>

\* str() of a non-negative int
StrInt(n) ==
    IF n < 10 THEN <<DigitChars[n + 1]>>
    ELSE StrInt(n \div 10) \o <<DigitChars[(n % 10) + 1]>>

\* str() of a float with an integral non-negative value: str(4.0) is "4.0"
StrFloat(a) == StrInt(a) \o <<".", "0">>

\* s.replace(".", "p")
ReplaceDots(s) == [i \in 1..Len(s) |-> IF s[i] = "." THEN "p" ELSE s[i]]

\* sub in s
Contains(s, sub) ==
    \E k \in 0..(Len(s) - Len(sub)) : \A i \in 1..Len(sub) : s[k + i] = sub[i]

\* prefixes callers pass to get_setting_specific_filename
Prefixes == {"recon", "v1.2"}

\* len(self._stacks): the observations of the model come from one stack
N_stacks == 1

\* get_setting_specific_filename that never names the regularization type
setting_specific_filename_NoRegType(prefix, n_stacks, rt, mn, a, im) ==
    ReplaceDots(Chars(prefix) \o Chars("_stacks") \o StrInt(n_stacks)
                \o Chars("_") \o Chars(mn)
                \o Chars("_alpha") \o StrFloat(a)
                \o Chars("_itermax") \o StrInt(im))

\* get_setting_specific_filename that returns the string as assembled
setting_specific_filename_DotsKept(prefix, n_stacks, rt, mn, a, im) ==
    Chars(prefix) \o Chars("_stacks") \o StrInt(n_stacks)
    \o (IF a > 0 THEN Chars("_") \o Chars(rt) ELSE <<>>)
    \o Chars("_") \o Chars(mn)
    \o Chars("_alpha") \o StrFloat(a)
    \o Chars("_itermax") \o StrInt(im)

\* the string get_setting_specific_filename builds from the configuration
setting_specific_filename(prefix, n_stacks, rt, mn, a, im) ==
    ReplaceDots(Chars(prefix) \o Chars("_stacks") \o StrInt(n_stacks)
                \o (IF a > 0 THEN Chars("_") \o Chars(rt) ELSE <<>>)
                \o Chars("_") \o Chars(mn)
                \o Chars("_alpha") \o StrFloat(a)
                \o Chars("_itermax") \o StrInt(im))

-----------------------------------------------------------------------------
(* Registration: values *)

\* Stack objects offered as fixed or moving image; image i carries mask i
Images == 1..MaxImage

\* self._fixed.sitk_mask, flattened
MaskOf(image) == image

\* cut-off distances offered by callers (3 is the default)
AlphaCuts == {3, 4}

\* self._rigid_transform_itk.GetNumberOfParameters() of an Euler3DTransform
dof_transform == 6

\* [None]*self._dof_transform
UnsetParameters == [i \in 1..dof_transform |-> None]

\* a filter attribute that has not been created or not been given its input
Unset == 0

NoFilters ==
    [oriented_Gaussian |-> [alpha |-> Unset, input |-> Unset],
     adjoint_oriented_Gaussian |-> [alpha |-> Unset, output_like |-> Unset],
     gradient_transform |-> [input |-> Unset]]

NoRCall == [op |-> "none", result |-> "ok"]

\* the Registration before its constructor has run
RegistrationInit ==
    /\ rpc = "new"
    /\ fixed = None
    /\ moving = None
    /\ fixed_mask_flag = FALSE
    /\ alpha_cut = Unset
    /\ verbose_flag = FALSE
    /\ parameters = <<>>
    /\ fixed_size = None
    /\ filters = NoFilters
    /\ nda_mask = None
    /\ rigid_transform_itk = <<>>
    /\ registration_time = None
    /\ rcall = NoRCall
    /\ rret = None

-----------------------------------------------------------------------------
(* Initial state: the caller's data, before the solver is constructed *)

\* self._elapsed_time_sec before any reconstruction has run
NotMeasured == -1

\* time_end - time_start of a finished solve, in whole seconds
ElapsedTimes == {0}

NoProbe == [kind |-> "none", inp |-> <<>>, out |-> <<>>]

NoCall == [op |-> "none", arg |-> "", result |-> "ok"]

Init ==
    /\ pc = "new"
    /\ stacks \in [y : Observations, mask : Masks]
    /\ HR_itk = get_itk_image_from_array_vec(InitialVolume)
    /\ HR_sitk = get_sitk_from_itk_image(HR_itk)
    /\ reg_type = ""
    /\ alpha = 0
    /\ iter_max = 0
    /\ minimizer = ""
    /\ residual_ell2 = None
    /\ residual_prior = None
    /\ elapsed_time_sec = NotMeasured
    /\ N_voxels = 0
    /\ b = <<>>
    /\ iter = 0
    /\ probe = NoProbe
    /\ call = NoCall
    /\ ret = None
    /\ ret_str = <<>>
    /\ RegistrationInit

-----------------------------------------------------------------------------
(* Operations *)

\* Solver.__init__ that accepts any regularization weight
Solver_init_accepts_Any(a) == TRUE

\* Solver.__init__ accepts the regularization weight
Solver_init_accepts(a) == a >= 0

\* the value __init__ stores for the reg_type argument
init_reg_type(rt) == rt

\* TikhonovSolver(stacks, HR_volume, alpha, iter_max, reg_type, minimizer)
Construct(rt, a, im, mn) ==
    /\ UNCHANGED registrationVars
    /\ pc = "new"
    /\ IF Solver_init_accepts(a)
       THEN /\ pc' = "idle"
            /\ alpha' = a
            /\ iter_max' = im
            /\ minimizer' = mn
            /\ reg_type' = init_reg_type(rt)
            /\ residual_prior' = None
            /\ residual_ell2' = None
            /\ call' = [op |-> "__init__", arg |-> rt, result |-> "ok"]
       ELSE /\ call' = [op |-> "__init__", arg |-> rt, result |-> "ValueError"]
            /\ UNCHANGED <<pc, alpha, iter_max, minimizer, reg_type,
                           residual_prior, residual_ell2>>
    /\ ret' = None
    /\ ret_str' = <<>>
    /\ UNCHANGED <<stacks, HR_itk, HR_sitk, elapsed_time_sec, solveLocals>>

\* set_regularization_type that stores the value before it validates it
set_reg_type_StoreFirst(rt) == rt

\* the value set_regularization_type leaves in self._reg_type
set_reg_type_value(rt) == IF rt \notin {"TK0", "TK1"} THEN reg_type ELSE rt

set_regularization_type(rt) ==
    /\ UNCHANGED registrationVars
    /\ pc = "idle"
    /\ reg_type' = set_reg_type_value(rt)
    /\ call' = [op |-> "set_regularization_type", arg |-> rt,
                result |-> IF rt \notin {"TK0", "TK1"} THEN "ValueError" ELSE "ok"]
    /\ ret' = None
    /\ ret_str' = <<>>
    /\ UNCHANGED <<pc, stacks, alpha, iter_max, minimizer, HR_itk, HR_sitk,
                   residual_ell2, residual_prior, elapsed_time_sec, solveLocals>>

get_regularization_type ==
    /\ UNCHANGED registrationVars
    /\ pc = "idle"
    /\ call' = [op |-> "get_regularization_type", arg |-> "", result |-> "ok"]
    /\ ret' = None
    /\ ret_str' = Chars(reg_type)
    /\ UNCHANGED <<pc, stacks, solverFields, solveLocals>>

\* compute_statistics that zeroes the array it reads from the volume
StatisticsEffect_VolumeZeroed ==
    LET HR_nda_vec == Flatten(GetArrayFromImage(HR_sitk))
    IN  /\ residual_ell2' = Some(get_residual_ell2(HR_nda_vec))
        /\ IF reg_type \in A_keys
           THEN residual_prior' = Some(get_residual_prior(reg_type, HR_nda_vec))
           ELSE residual_prior' = residual_prior
        /\ HR_sitk' = [HR_sitk EXCEPT !.nda = Reshape(Zeros(N_voxels_HR_volume))]
        /\ UNCHANGED <<reg_type, alpha, iter_max, minimizer, HR_itk,
                       elapsed_time_sec>>

\* the effect of compute_statistics on the solver: the two cached residuals
\* are assigned from a flattened copy of the volume's array; the second
\* assignment raises KeyError when the type is no key of the dispatch table
StatisticsEffect ==
    LET HR_nda_vec == Flatten(GetArrayFromImage(HR_sitk))
    IN  /\ residual_ell2' = Some(get_residual_ell2(HR_nda_vec))
        /\ IF reg_type \in A_keys
           THEN residual_prior' = Some(get_residual_prior(reg_type, HR_nda_vec))
           ELSE residual_prior' = residual_prior
        /\ UNCHANGED <<reg_type, alpha, iter_max, minimizer, HR_itk, HR_sitk,
                       elapsed_time_sec>>

compute_statistics ==
    /\ UNCHANGED registrationVars
    /\ pc = "idle"
    /\ StatisticsEffect
    /\ call' = [op |-> "compute_statistics", arg |-> "",
                result |-> IF reg_type \in A_keys THEN "ok" ELSE "KeyError"]
    /\ ret' = None
    /\ ret_str' = <<>>
    /\ UNCHANGED <<pc, stacks, solveLocals>>

\* self._residual_ell2 + self._alpha*self._residual_prior
final_cost(ell2, a, prior) == ell2 + a * prior

get_final_cost ==
    /\ UNCHANGED registrationVars
    /\ pc = "idle"
    /\ IF residual_ell2 = None \/ residual_prior = None
       THEN /\ StatisticsEffect
            /\ call' = [op |-> "get_final_cost", arg |-> "",
                        result |-> IF reg_type \in A_keys THEN "ok" ELSE "KeyError"]
       ELSE /\ call' = [op |-> "get_final_cost", arg |-> "", result |-> "ok"]
            /\ UNCHANGED solverFields
    /\ ret' = IF call'.result = "ok"
              THEN Some(final_cost(residual_ell2'[1], alpha, residual_prior'[1]))
              ELSE None
    /\ ret_str' = <<>>
    /\ UNCHANGED <<pc, stacks, solveLocals>>

\* formatting an unset value with %s or %.3e raises TypeError
print_statistics ==
    /\ UNCHANGED registrationVars
    /\ pc = "idle"
    /\ call' = [op |-> "print_statistics", arg |-> "",
                result |-> IF residual_ell2 = None \/ residual_prior = None
                           THEN "TypeError" ELSE "ok"]
    /\ ret' = None
    /\ ret_str' = <<>>
    /\ UNCHANGED <<pc, stacks, solverFields, solveLocals>>

get_setting_specific_filename(prefix) ==
    /\ UNCHANGED registrationVars
    /\ pc = "idle"
    /\ call' = [op |-> "get_setting_specific_filename", arg |-> prefix,
                result |-> "ok"]
    /\ ret' = None
    /\ ret_str' = setting_specific_filename(prefix, N_stacks, reg_type,
                                            minimizer, alpha, iter_max)
    /\ UNCHANGED <<pc, stacks, solverFields, solveLocals>>

\* vectors the iterative solver hands to the adjoint closure
ProbeZ(N) ==
    {b, [i \in 1..N |-> 1], [i \in 1..N |-> IF i = N THEN 1 ELSE 0]}

\* run_reconstruction up to the call of the minimizer: sizes the augmented
\* system, builds b and looks the minimizer up
run_reconstruction ==
    /\ UNCHANGED registrationVars
    /\ pc = "idle"
    /\ IF minimizer \in Minimizers
       THEN /\ pc' = "Solving"
            /\ N_voxels' = AugmentedSize(reg_type)
            /\ b' = get_b(N_voxels')
            /\ call' = [op |-> "run_reconstruction", arg |-> "", result |-> "running"]
       ELSE /\ call' = [op |-> "run_reconstruction", arg |-> "", result |-> "KeyError"]
            /\ UNCHANGED <<pc, N_voxels, b>>
    /\ iter' = 0
    /\ probe' = NoProbe
    /\ ret' = None
    /\ ret_str' = <<>>
    /\ UNCHANGED <<stacks, solverFields>>

\* the solve is abandoned by an exception raised in a closure
SolveRaises(err) ==
    /\ pc' = "idle"
    /\ call' = [op |-> "run_reconstruction", arg |-> "", result |-> err]
    /\ N_voxels' = 0
    /\ b' = <<>>
    /\ iter' = 0
    /\ probe' = NoProbe

\* a minimizer whose iteration count never advances
IterationsDone_Stuck(i, kind) == i

\* iterations completed once the adjoint is evaluated after a forward product
IterationsDone(i, kind) == IF kind = "fw" THEN i + 1 ELSE i

\* the minimizer evaluates A_bw(z): first on start, then once per iteration
SolverRmatvec ==
    /\ UNCHANGED registrationVars
    /\ pc = "Solving"
    /\ probe.kind \in {"none", "fw"}
    /\ IF reg_type \in A_keys
       THEN /\ \E z \in ProbeZ(N_voxels) :
                 probe' = [kind |-> "bw", inp |-> z, out |-> A_bw(z)]
            /\ iter' = IterationsDone(iter, probe.kind)
            /\ UNCHANGED <<pc, call, N_voxels, b>>
       ELSE SolveRaises("KeyError")
    /\ UNCHANGED <<stacks, solverFields, ret, ret_str>>

\* the minimizer evaluates A_fw(x), once per iteration
SolverMatvec ==
    /\ UNCHANGED registrationVars
    /\ pc = "Solving"
    /\ probe.kind = "bw"
    /\ iter < iter_max
    /\ \E x \in Volumes :
          probe' = [kind |-> "fw", inp |-> x, out |-> A_fw(x)]
    /\ UNCHANGED <<pc, stacks, solverFields, N_voxels, b, iter, call, ret, ret_str>>

\* run_reconstruction that updates only the itk image of the volume
UpdatedSitk_Forgotten(new_itk, old_sitk) == old_sitk

\* self._HR_volume.sitk after the update of self._HR_volume.itk
UpdatedSitk(new_itk, old_sitk) == get_sitk_from_itk_image(new_itk)

\* the minimizer returns its iterate (converged, or iter_max reached) and
\* run_reconstruction records the elapsed time and replaces the volume
SolverReturns ==
    /\ UNCHANGED registrationVars
    /\ pc = "Solving"
    /\ probe.kind = "bw"
    /\ \E HR_nda_vec \in Volumes, t \in ElapsedTimes :
          /\ elapsed_time_sec' = t
          /\ HR_itk' = get_itk_image_from_array_vec(HR_nda_vec)
          /\ HR_sitk' = UpdatedSitk(HR_itk', HR_sitk)
    /\ pc' = "idle"
    /\ call' = [op |-> "run_reconstruction", arg |-> "", result |-> "ok"]
    /\ N_voxels' = 0
    /\ b' = <<>>
    /\ iter' = 0
    /\ probe' = NoProbe
    /\ ret' = None
    /\ ret_str' = <<>>
    /\ UNCHANGED <<stacks, reg_type, alpha, iter_max, minimizer,
                   residual_ell2, residual_prior>>

Next ==
    \/ \E rt \in RegTypeArgs, a \in AlphaArgs, im \in 1..MaxIter, mn \in MinimizerArgs :
          Construct(rt, a, im, mn)
    \/ \E rt \in RegTypeArgs : set_regularization_type(rt)
    \/ get_regularization_type
    \/ compute_statistics
    \/ get_final_cost
    \/ print_statistics
    \/ \E prefix \in Prefixes : get_setting_specific_filename(prefix)
    \/ run_reconstruction
    \/ SolverRmatvec
    \/ SolverMatvec
    \/ SolverReturns

Spec == Init /\ [][Next]_vars

\* a step of the minimizer, or its return into run_reconstruction
SolveStep == SolverRmatvec \/ SolverMatvec \/ SolverReturns

\* one of the initial states: a solver given partly masked observations
FairInit ==
    /\ Init
    /\ stacks = [y |-> [i \in 1..N_total_slice_voxels |-> i % (MaxVal + 1)],
                 mask |-> <<1, 0>>]

\* run_reconstruction is one synchronous call: once the minimizer is entered,
\* the calling thread keeps executing it until it returns
FairSpec == FairInit /\ [][Next]_vars /\ WF_vars(SolveStep)

-----------------------------------------------------------------------------
(* Registration: operations *)

\* image arguments callers pass: a Stack, or nothing (the default)
ImageArgs == {None} \cup {Some(i) : i \in Images}

registrationFields ==
    <<fixed, moving, fixed_mask_flag, alpha_cut, verbose_flag, parameters,
      fixed_size, filters, nda_mask, rigid_transform_itk, registration_time>>

Registration_init(fx, mv, flag, ac, vb) ==
    /\ rpc = "new"
    /\ rpc' = "idle"
    /\ fixed' = fx
    /\ moving' = mv
    /\ fixed_mask_flag' = flag
    /\ alpha_cut' = ac
    /\ rigid_transform_itk' = Zeros(dof_transform)
    /\ parameters' = UnsetParameters
    /\ verbose_flag' = vb
    /\ rcall' = [op |-> "__init__", result |-> "ok"]
    /\ rret' = None
    /\ UNCHANGED <<fixed_size, filters, nda_mask, registration_time>>
    /\ UNCHANGED tikhonovVars

set_fixed(fx) ==
    /\ rpc = "idle"
    /\ fixed' = fx
    /\ rcall' = [op |-> "set_fixed", result |-> "ok"]
    /\ rret' = None
    /\ UNCHANGED <<rpc, moving, fixed_mask_flag, alpha_cut, verbose_flag,
                   parameters, fixed_size, filters, nda_mask,
                   rigid_transform_itk, registration_time>>
    /\ UNCHANGED tikhonovVars

set_moving(mv) ==
    /\ rpc = "idle"
    /\ moving' = mv
    /\ rcall' = [op |-> "set_moving", result |-> "ok"]
    /\ rret' = None
    /\ UNCHANGED <<rpc, fixed, fixed_mask_flag, alpha_cut, verbose_flag,
                   parameters, fixed_size, filters, nda_mask,
                   rigid_transform_itk, registration_time>>
    /\ UNCHANGED tikhonovVars

use_fixed_mask(flag) ==
    /\ rpc = "idle"
    /\ fixed_mask_flag' = flag
    /\ rcall' = [op |-> "use_fixed_mask", result |-> "ok"]
    /\ rret' = None
    /\ UNCHANGED <<rpc, fixed, moving, alpha_cut, verbose_flag, parameters,
                   fixed_size, filters, nda_mask, rigid_transform_itk,
                   registration_time>>
    /\ UNCHANGED tikhonovVars

set_alpha_cut(ac) ==
    /\ rpc = "idle"
    /\ alpha_cut' = ac
    /\ rcall' = [op |-> "set_alpha_cut", result |-> "ok"]
    /\ rret' = None
    /\ UNCHANGED <<rpc, fixed, moving, fixed_mask_flag, verbose_flag,
                   parameters, fixed_size, filters, nda_mask,
                   rigid_transform_itk, registration_time>>
    /\ UNCHANGED tikhonovVars

get_alpha_cut ==
    /\ rpc = "idle"
    /\ rcall' = [op |-> "get_alpha_cut", result |-> "ok"]
    /\ rret' = Some(alpha_cut)
    /\ UNCHANGED <<rpc, registrationFields>>
    /\ UNCHANGED tikhonovVars

get_parameters ==
    /\ rpc = "idle"
    /\ rcall' = [op |-> "get_parameters", result |-> "ok"]
    /\ rret' = parameters
    /\ UNCHANGED <<rpc, registrationFields>>
    /\ UNCHANGED tikhonovVars

\* Euler3DTransform.SetParameters rejects entries that are None
get_registration_transform_sitk ==
    /\ rpc = "idle"
    /\ IF \E i \in 1..Len(parameters) : parameters[i] = None
       THEN /\ rcall' = [op |-> "get_registration_transform_sitk",
                         result |-> "TypeError"]
            /\ rret' = None
       ELSE /\ rcall' = [op |-> "get_registration_transform_sitk",
                         result |-> "ok"]
            /\ rret' = parameters
    /\ UNCHANGED <<rpc, registrationFields>>
    /\ UNCHANGED tikhonovVars

use_verbose(flag) ==
    /\ rpc = "idle"
    /\ verbose_flag' = flag
    /\ rcall' = [op |-> "use_verbose", result |-> "ok"]
    /\ rret' = None
    /\ UNCHANGED <<rpc, fixed, moving, fixed_mask_flag, alpha_cut, parameters,
                   fixed_size, filters, nda_mask, rigid_transform_itk,
                   registration_time>>
    /\ UNCHANGED tikhonovVars

get_verbose ==
    /\ rpc = "idle"
    /\ rcall' = [op |-> "get_verbose", result |-> "ok"]
    /\ rret' = Some(verbose_flag)
    /\ UNCHANGED <<rpc, registrationFields>>
    /\ UNCHANGED tikhonovVars

\* self._elapsed_time_sec does not exist before the first finished run
Registration_print_statistics ==
    /\ rpc = "idle"
    /\ rcall' = [op |-> "print_statistics",
                 result |-> IF registration_time = None
                            THEN "AttributeError" ELSE "ok"]
    /\ rret' = None
    /\ UNCHANGED <<rpc, registrationFields>>
    /\ UNCHANGED tikhonovVars

\* the filters as _initialize_class leaves them when it runs to its end
InitializedFilters ==
    [oriented_Gaussian |-> [alpha |-> alpha_cut, input |-> moving[1]],
     adjoint_oriented_Gaussian |-> [alpha |-> alpha_cut, output_like |-> moving[1]],
     gradient_transform |-> [input |-> fixed[1]]]

\* self._nda_mask after _initialize_class: assigned only if the flag is set
nda_mask_after(flag, fx, old) == IF flag THEN Some(MaskOf(fx[1])) ELSE old

\* an optimization started from the parameters of the previous run
x0_FromPrevious ==
    IF \E i \in 1..Len(parameters) : parameters[i] = None
    THEN Zeros(dof_transform)
    ELSE [i \in 1..dof_transform |-> parameters[i][1]]

\* np.zeros(self._dof_transform)
x0 == Zeros(dof_transform)

\* what the closures fun and jac read when least_squares evaluates them: the
\* fixed image, the input and alpha of the oriented Gaussian filter, and the
\* mask if the flag is set
residual_data_fit(fx, flt, flag, mask) ==
    [fixed |-> fx[1],
     moving |-> flt.oriented_Gaussian.input,
     alpha |-> flt.oriented_Gaussian.alpha,
     mask |-> IF flag THEN mask[1] ELSE Unset]

\* res.x of least_squares(fun, x0, jac): a function of the residual and of
\* the start vector, kept one-to-one so that the result tells what was read
least_squares(fun, start) ==
    <<Some(fun.fixed), Some(fun.moving), Some(fun.alpha), Some(fun.mask),
      Some(SumSeq(start)), Some(Len(start))>>

\* the 6 numbers of a parameter vector whose entries are all set
Numbers(p) == [i \in 1..Len(p) |-> p[i][1]]

run_registration ==
    /\ rpc = "idle"
    /\ IF fixed = None
       THEN \* self._fixed.sitk raises before anything is assigned
            /\ rcall' = [op |-> "run_registration", result |-> "AttributeError"]
            /\ UNCHANGED registrationFields
       ELSE IF moving = None
       THEN \* self._moving.itk raises after the first filter was created
            /\ rcall' = [op |-> "run_registration", result |-> "AttributeError"]
            /\ fixed_size' = fixed
            /\ filters' = [filters EXCEPT !.oriented_Gaussian =
                              [alpha |-> alpha_cut, input |-> Unset]]
            /\ UNCHANGED <<fixed, moving, fixed_mask_flag, alpha_cut,
                           verbose_flag, parameters, nda_mask,
                           rigid_transform_itk, registration_time>>
       ELSE /\ fixed_size' = fixed
            /\ filters' = InitializedFilters
            /\ nda_mask' = nda_mask_after(fixed_mask_flag, fixed, nda_mask)
            /\ parameters' =
                  least_squares(residual_data_fit(fixed, filters',
                                                  fixed_mask_flag, nda_mask'),
                                x0)
            /\ \E last \in {x0, Numbers(parameters')} :
                  rigid_transform_itk' = last
            /\ registration_time' = Some(0)
            /\ rcall' = [op |-> "run_registration", result |-> "ok"]
            /\ UNCHANGED <<fixed, moving, fixed_mask_flag, alpha_cut,
                           verbose_flag>>
    /\ rret' = None
    /\ UNCHANGED rpc
    /\ UNCHANGED tikhonovVars

RegNext ==
    \/ \E fx \in ImageArgs, mv \in ImageArgs, flag \in BOOLEAN,
          ac \in AlphaCuts, vb \in BOOLEAN :
          Registration_init(fx, mv, flag, ac, vb)
    \/ \E fx \in ImageArgs \ {None} : set_fixed(fx)
    \/ \E mv \in ImageArgs \ {None} : set_moving(mv)
    \/ \E flag \in BOOLEAN : use_fixed_mask(flag)
    \/ \E ac \in AlphaCuts : set_alpha_cut(ac)
    \/ get_alpha_cut
    \/ get_parameters
    \/ get_registration_transform_sitk
    \/ \E flag \in BOOLEAN : use_verbose(flag)
    \/ get_verbose
    \/ Registration_print_statistics
    \/ run_registration

\* the Registration used on its own, next to a solver that is not constructed
RegInit ==
    /\ Init
    /\ stacks = [y |-> [i \in 1..N_total_slice_voxels |-> MaxVal],
                 mask |-> [i \in 1..N_total_slice_voxels |-> 1]]

RegSpec == RegInit /\ [][RegNext]_vars

-----------------------------------------------------------------------------
(* Claims *)

\* the flat voxel vector of the owned volume
CurrentVolume == Flatten(GetArrayFromImage(HR_sitk))

\* a reconstruction has completed
HasRun == elapsed_time_sec # NotMeasured

\* C1: a get_final_cost issued after the most recent completed
\* run_reconstruction returns the cost of the volume produced by that run
\* (for one of the two regularization norms), not a value cached before it.
C1_FinalCostOfLatestRun ==
    (pc = "idle" /\ HasRun /\ call.op = "get_final_cost" /\ call.result = "ok")
        => \E t \in RegTypes :
              ret = Some(get_residual_ell2(CurrentVolume)
                         + alpha * get_residual_prior(t, CurrentVolume))

\* what get_final_cost leaves behind when it does what it is meant to: both
\* residuals set (computed from the current volume if either was unset, left
\* alone otherwise) and their weighted sum returned
FinalCostStep ==
    /\ residual_ell2' # None
    /\ residual_prior' # None
    /\ ret' = Some(residual_ell2'[1] + alpha * residual_prior'[1])
    /\ IF residual_ell2 = None \/ residual_prior = None
       THEN /\ residual_ell2' = Some(get_residual_ell2(CurrentVolume))
            /\ residual_prior' = Some(get_residual_prior(reg_type, CurrentVolume))
       ELSE UNCHANGED <<residual_ell2, residual_prior>>

\* C2: every get_final_cost leaves both residuals set and returns exactly
\* residual_ell2 + alpha * residual_prior of the stored values; if either was
\* unset the stored values are those compute_statistics computes from the
\* current volume, otherwise they are left as they were.
C2_FinalCostDecomposition ==
    [][(call'.op = "get_final_cost") => FinalCostStep]_vars

\* the same for solvers whose regularization type is "TK0" or "TK1"
FinalCostDecompositionOfRecognizedType ==
    [][(call'.op = "get_final_cost" /\ reg_type \in RegTypes)
          => (call'.result = "ok" /\ FinalCostStep)]_vars

\* C3: set_regularization_type with a value other than "TK0" or "TK1" fails
\* and leaves every field of the solver unchanged; with "TK0" or "TK1" it
\* succeeds and stores exactly that value.
C3_SetterRejectsUnknownType ==
    [][(call'.op = "set_regularization_type") =>
          IF call'.arg \in {"TK0", "TK1"}
          THEN call'.result = "ok" /\ reg_type' = call'.arg
          ELSE call'.result = "ValueError" /\ UNCHANGED solverFields]_vars

\* C3 witness: the setter has rejected "TV" on a solver whose type is "TK0"
C3_Witness ==
    /\ call.op = "set_regularization_type"
    /\ call.arg = "TV"
    /\ call.result = "ValueError"
    /\ reg_type = "TK0"

\* C4: in every state of a constructed solver the regularization type is
\* "TK0" or "TK1", and the augmented system of a running reconstruction is
\* sized for first-order regularization only when the type is "TK1".
C4_RegTypeAlwaysRecognized ==
    /\ pc # "new" => reg_type \in {"TK0", "TK1"}
    /\ (pc = "Solving"
        /\ N_voxels = N_total_slice_voxels + 3 * N_voxels_HR_volume)
          => reg_type = "TK1"

\* C5: a run_reconstruction that fails leaves the volume unchanged; the
\* volume changes only in the step that completes a solve, and its itk and
\* sitk images always hold the same voxel array.
C5_VolumeReplacedOnlyByFinishedSolve ==
    [][/\ (call'.op = "run_reconstruction" /\ call'.result \in {"KeyError", "running"})
            => UNCHANGED <<HR_itk, HR_sitk>>
       /\ (HR_itk' # HR_itk \/ HR_sitk' # HR_sitk)
            => (pc = "Solving" /\ call'.op = "run_reconstruction"
                /\ call'.result = "ok")
       /\ HR_itk'.nda = HR_sitk'.nda]_vars

\* C5 witness: a reconstruction has failed inside the solve (unrecognized
\* regularization type) and the volume is still the caller's estimate
C5_Witness ==
    /\ call.op = "run_reconstruction"
    /\ call.result = "KeyError"
    /\ minimizer \in Minimizers
    /\ reg_type \notin A_keys
    /\ pc = "idle"
    /\ HR_sitk.nda = Reshape(InitialVolume)

C7_AugmentedLengths ==
    pc = "Solving" =>
        /\ probe.kind = "none" =>
              \A x \in Volumes :
                  /\ Len(A_TK0(x, alpha)) = N_total_slice_voxels + N_voxels_HR_volume
                  /\ Len(A_TK1(x, alpha)) = N_total_slice_voxels + 3 * N_voxels_HR_volume
                  /\ reg_type \in RegTypes => Len(b) = Len(A_fw(x))
        /\ probe.kind = "fw" =>
              /\ Len(probe.out) = Len(b)
              /\ Len(probe.out) = N_total_slice_voxels
                    + (IF reg_type = "TK0" THEN 1 ELSE 3) * N_voxels_HR_volume

\* C7 witness: a TK0 solve has evaluated the forward operator with alpha = 0
C7_Witness ==
    /\ pc = "Solving"
    /\ reg_type = "TK0"
    /\ alpha = 0
    /\ probe.kind = "fw"
    /\ Len(probe.out) = N_total_slice_voxels + N_voxels_HR_volume
    /\ Len(b) = Len(probe.out)

\* augmented vectors of the zeroth-order system
AugVectorsTK0 == Vec(N_total_slice_voxels + N_voxels_HR_volume, Vals)

\* the masked data-fit adjoint of the first N_total_slice_voxels entries of z
\* plus sqrt(alpha) times its last N_voxels entries
AdjointByEntries(z) ==
    [j \in 1..N_voxels_HR_volume |->
        SumSeq([i \in 1..N_total_slice_voxels |->
                   Amat[i][j] * stacks.mask[i] * z[i]])
        + Sqrt(alpha) * z[N_total_slice_voxels + j]]

\* C8: for TK0, <A(x,alpha), z> = <x, A_adj(z,alpha)> for every volume x and
\* augmented vector z (checked when a first solve starts, and against each
\* evaluation a solve makes), and A_adj(z,alpha) is the masked data-fit
\* adjoint of the first N_total_slice_voxels entries of z plus sqrt(alpha)
\* times its last N_voxels entries.
C8_AdjointTK0 ==
    (pc = "Solving" /\ reg_type = "TK0") =>
        /\ (probe.kind = "none" /\ ~HasRun /\ residual_ell2 = None) =>
              \A z \in AugVectorsTK0 :
                  /\ A_adj_TK0(z, alpha) = AdjointByEntries(z)
                  /\ \A x \in Volumes :
                        Dot(A_TK0(x, alpha), z) = Dot(x, A_adj_TK0(z, alpha))
        /\ probe.kind = "fw" =>
              \A z \in ProbeZ(N_voxels) :
                  Dot(probe.out, z) = Dot(probe.inp, A_adj_TK0(z, alpha))
        /\ probe.kind = "bw" =>
              /\ probe.out = AdjointByEntries(probe.inp)
              /\ \A x \in Volumes :
                    Dot(A_TK0(x, alpha), probe.inp) = Dot(x, probe.out)

\* C8 witness: a TK0 solve with alpha = 4 has evaluated the adjoint on a
\* vector with non-zero data and regularization entries
C8_Witness ==
    /\ pc = "Solving"
    /\ reg_type = "TK0"
    /\ alpha = 4
    /\ probe.kind = "bw"
    /\ probe.inp[1] # 0
    /\ probe.inp[Len(probe.inp)] # 0
    /\ probe.out[N_voxels_HR_volume] # 0

\* with alpha = 0, out is the forward output of x at full length: masked
\* stacked forward result first, then an all-zero regularization block
ZeroAlphaOutput(x, out) ==
    /\ Len(out) = AugmentedSize(reg_type)
    /\ \A i \in 1..N_total_slice_voxels :
          out[i] = stacks.mask[i] * Dot(Amat[i], x)
    /\ \A i \in (N_total_slice_voxels + 1)..Len(out) : out[i] = 0

\* C9: with alpha = 0 every forward output (of every volume, checked when a
\* solve starts, and of every evaluation the solve makes) keeps the full
\* augmented length, its first N_total_slice_voxels entries are the masked
\* stacked forward result and every entry of its regularization block is zero.
C9_ZeroAlphaKeepsRows ==
    (pc = "Solving" /\ alpha = 0 /\ reg_type \in RegTypes) =>
        /\ probe.kind = "none" => \A x \in Volumes : ZeroAlphaOutput(x, A_fw(x))
        /\ probe.kind = "fw" => ZeroAlphaOutput(probe.inp, probe.out)

\* C9 witness: a TK0 solve with alpha = 0 has evaluated the forward operator
\* on a non-zero volume
C9_Witness ==
    /\ pc = "Solving"
    /\ reg_type = "TK0"
    /\ alpha = 0
    /\ probe.kind = "fw"
    /\ probe.inp[1] # 0
    /\ probe.out[1] # 0
    /\ Len(probe.out) = N_total_slice_voxels + N_voxels_HR_volume

\* C10: the right-hand side of a running reconstruction holds the masked
\* observations in its first N_total_slice_voxels entries and zero in every
\* entry of the regularization block, whose size is N_voxels for TK0 and
\* 3*N_voxels otherwise.
C10_RightHandSide ==
    pc = "Solving" =>
        /\ Len(b) = N_total_slice_voxels
                    + (IF reg_type = "TK0" THEN 1 ELSE 3) * N_voxels_HR_volume
        /\ \A i \in 1..N_total_slice_voxels : b[i] = stacks.mask[i] * stacks.y[i]
        /\ \A i \in (N_total_slice_voxels + 1)..Len(b) : b[i] = 0

\* C10 witness: a TK1 solve with alpha = 4 runs on a right-hand side in which
\* the mask removed a non-zero observation
C10_Witness ==
    /\ pc = "Solving"
    /\ reg_type = "TK1"
    /\ alpha = 4
    /\ \E i \in 1..N_total_slice_voxels :
          stacks.mask[i] = 0 /\ stacks.y[i] # 0 /\ b[i] = 0
    /\ \E i \in 1..N_total_slice_voxels : b[i] # 0

\* the string get_setting_specific_filename would return for prefix p if the
\* regularization type were rt and everything else as it is
FilenameWithRegType(p, rt) ==
    setting_specific_filename(p, N_stacks, rt, minimizer, alpha, iter_max)

\* the last operation was a get_setting_specific_filename
FilenameReturned == call.op = "get_setting_specific_filename"

\* C11 (as stated): for every configuration, alpha = 0 included, the string
\* returned by get_setting_specific_filename contains the regularization
\* type, so that changing only the regularization type changes the string.
C11_FilenameNamesRegType ==
    FilenameReturned =>
        /\ Contains(ret_str, Chars(reg_type))
        /\ \A rt \in RegTypeArgs \ {reg_type} :
              FilenameWithRegType(call.arg, rt) # ret_str

\* C11 (amended): with alpha > 0 the string returned by
\* get_setting_specific_filename contains the regularization type and
\* changing only the regularization type changes the string; with alpha = 0
\* the type is left out and the string is the same for every type.
C11_FilenameNamesRegTypeIfRegularized ==
    FilenameReturned =>
        IF alpha > 0
        THEN /\ Contains(ret_str, Chars("_") \o Chars(reg_type) \o Chars("_"))
             /\ \A rt \in RegTypeArgs \ {reg_type} :
                   FilenameWithRegType(call.arg, rt) # ret_str
        ELSE /\ ~Contains(ret_str, Chars(reg_type))
             /\ \A rt \in RegTypeArgs :
                   FilenameWithRegType(call.arg, rt) = ret_str

\* a filename was asked of a regularized TK1 solver
C11_Witness == FilenameReturned /\ alpha > 0 /\ reg_type = "TK1"

\* the string get_setting_specific_filename would return for prefix p if
\* alpha were a and everything else as it is
FilenameWithAlpha(p, a) ==
    setting_specific_filename(p, N_stacks, reg_type, minimizer, a, iter_max)

\* C12: get_setting_specific_filename changes no solver state; the string it
\* returns is determined by (prefix, stack count, regularization type,
\* minimizer, alpha, iter_max), differs from the string of every
\* configuration that differs only in alpha, and contains no '.', dots of
\* the prefix included.
C12_FilenameDeterministicDotFree ==
    [][call'.op = "get_setting_specific_filename" =>
          /\ UNCHANGED <<pc, stacks, solverFields>>
          /\ ret_str' = FilenameWithAlpha(call'.arg, alpha)
          /\ \A a \in (0..MaxAlphaCompared) \ {alpha} :
                FilenameWithAlpha(call'.arg, a) # ret_str'
          /\ ~Contains(ret_str', <<".">>)]_vars

\* a filename was asked with a prefix that has a dot in it
C12_Witness ==
    FilenameReturned /\ Contains(Chars(call.arg), <<".">>) /\ reg_type = "TK0"

\* a run_reconstruction has just returned normally
SolveCompleted ==
    pc = "idle" /\ call.op = "run_reconstruction" /\ call.result = "ok"

\* C13: a run_reconstruction entered with a recognized regularization type
\* and minimizer never does more than iter_max iterations, never restarts
\* its iteration, and eventually returns normally, whether it stopped before
\* or at iter_max; on return the iterate is the owned volume (itk and sitk
\* alike) and the elapsed time is recorded.
C13_SolveStops ==
    /\ [](pc = "Solving" => iter <= iter_max)
    /\ [][pc = "Solving" =>
             \/ /\ pc' = "Solving"
                /\ iter' >= iter
                /\ UNCHANGED <<call, solverFields>>
             \/ /\ reg_type \in RegTypes
                /\ SolveCompleted'
                /\ HasRun'
                /\ HR_itk'.nda \in {Reshape(v) : v \in Volumes}
                /\ GetArrayFromImage(HR_sitk') = HR_itk'.nda
             \/ /\ reg_type \notin RegTypes
                /\ pc' = "idle"
                /\ call'.result = "KeyError"]_vars
    /\ (pc = "Solving" /\ reg_type \in RegTypes) ~> (SolveCompleted /\ HasRun)

\* a run has returned and left a volume other than the initial one
C13_Witness == SolveCompleted /\ HasRun /\ CurrentVolume # InitialVolume

\* operations that read the solver or set its regularization type
ReadingOps ==
    {"compute_statistics", "get_final_cost", "print_statistics",
     "set_regularization_type", "get_regularization_type",
     "get_setting_specific_filename"}

\* C14: the owned volume changes only in the step that completes a
\* run_reconstruction; compute_statistics, get_final_cost, print_statistics,
\* set_regularization_type, get_regularization_type and
\* get_setting_specific_filename leave the volume, alpha, iter_max and
\* minimizer as they were, and compute_statistics and get_final_cost change
\* no field of the solver other than the two cached residuals.
C14_FrameOfReadingOps ==
    [][/\ (HR_itk' # HR_itk \/ HR_sitk' # HR_sitk)
            => (pc = "Solving" /\ SolveCompleted')
       /\ (pc = "idle" /\ call'.op \in ReadingOps)
            => UNCHANGED <<HR_itk, HR_sitk, alpha, iter_max, minimizer>>
       /\ (pc = "idle" /\ call'.op \in {"compute_statistics", "get_final_cost"})
            => UNCHANGED <<pc, stacks, reg_type, alpha, iter_max, minimizer,
                           HR_itk, HR_sitk, elapsed_time_sec>>]_vars

\* statistics were computed from a reconstructed volume that is not all zero
C14_Witness ==
    /\ call.op = "compute_statistics"
    /\ call.result = "ok"
    /\ HasRun
    /\ residual_prior # None
    /\ CurrentVolume # Zeros(N_voxels_HR_volume)

\* sum of the squared entries of a flat vector
SquaresOfVector(u) == SumSeq([i \in 1..Len(u) |-> u[i] * u[i]])

\* sum, over the voxels of a 3D array, of the squared forward differences
\* along x, y and z (indices wrap at the border)
SquaresOfDerivatives(nda) ==
    LET at(z, y, x) == nda[(z % nz) + 1][(y % ny) + 1][(x % nx) + 1]
        sq(d) == d * d
        voxel(i) == <<(i - 1) \div (nx * ny), ((i - 1) \div nx) % ny, (i - 1) % nx>>
    IN  SumSeq([i \in 1..(nx * ny * nz) |->
                   LET z == voxel(i)[1]
                       y == voxel(i)[2]
                       x == voxel(i)[3]
                   IN  sq(at(z, y, x + 1) - at(z, y, x))
                       + sq(at(z, y + 1, x) - at(z, y, x))
                       + sq(at(z + 1, y, x) - at(z, y, x))])

C16_CachedPriorOfCurrentType ==
    (pc = "idle" /\ ~HasRun /\ reg_type \in RegTypes) =>
        /\ residual_prior # None =>
              residual_prior = Some(get_residual_prior(reg_type, CurrentVolume))
        /\ (call.op = "get_final_cost" /\ call.result = "ok") =>
              ret = Some(get_residual_ell2(CurrentVolume)
                         + alpha * get_residual_prior(reg_type, CurrentVolume))

\* the parameters a run started from zero finds for the images, cut-off and
\* mask flag the Registration holds
ResultOfCurrentSettings ==
    least_squares([fixed |-> fixed[1], moving |-> moving[1], alpha |-> alpha_cut,
                   mask |-> IF fixed_mask_flag THEN MaskOf(fixed[1]) ELSE Unset],
                  Zeros(dof_transform))

\* C17: every run_registration that completes creates its filters and, with
\* the flag set, its mask from the fixed image, moving image, alpha_cut and
\* use_fixed_mask held at the call, starts from the all-zero vector of 6
\* parameters whatever the previous result, and stores a result of 6 set
\* entries that depends on nothing else; until the first completed run
\* get_parameters returns six unset entries.
C17_RunsIndependent ==
    [][/\ (rcall'.op = "run_registration" /\ rcall'.result = "ok") =>
             /\ parameters' = ResultOfCurrentSettings
             /\ Len(parameters') = 6
             /\ \A i \in 1..6 : parameters'[i] # None
             /\ filters'.oriented_Gaussian = [alpha |-> alpha_cut, input |-> moving[1]]
             /\ filters'.gradient_transform = [input |-> fixed[1]]
             /\ fixed_mask_flag => nda_mask' = Some(MaskOf(fixed[1]))
             /\ UNCHANGED <<fixed, moving, alpha_cut, fixed_mask_flag>>
       /\ (rcall'.op = "get_parameters" /\ registration_time = None) =>
             /\ Len(rret') = 6
             /\ \A i \in 1..6 : rret'[i] = None]_vars

\* a run has completed with the mask switched off and the fixed image
\* replaced since an earlier run stored its mask
C17_Witness ==
    /\ rcall.op = "run_registration"
    /\ rcall.result = "ok"
    /\ ~fixed_mask_flag
    /\ nda_mask # None
    /\ nda_mask # Some(MaskOf(fixed[1]))

====
